---------------------------- MODULE Spec2Model ----------------------------
(***************************************************************************)
(* Schedule-conflict detection of the schedule-app backend:                *)
(*   src/backend/src/services/conflictDetection.ts  checkScheduleConflicts *)
(*   src/backend/src/routes/clients.ts              schedule-entry routes  *)
(*   src/backend/src/index.ts                       worker routes          *)
(*                                                                         *)
(* Time strings are sequences of UTF-16 code units, hours are IEEE-754     *)
(* doubles, dates are local calendar days with a millisecond of the day.   *)
(***************************************************************************)
EXTENDS Integers, Sequences, FiniteSets, TLC

\* null and undefined: of a string, of an object, of an entry id
NULL == "null"
NoRow == [null |-> TRUE]
NoId == 0

(***************************************************************************)
(* Time strings.  "9:00" is <<57, 58, 48, 48>>.                            *)
(***************************************************************************)
Ch0 == 48
ChColon == 58

IsDigit(c) == c >= Ch0 /\ c <= Ch0 + 9

InRange(c, lo, hi) == c >= Ch0 + lo /\ c <= Ch0 + hi

\* z.string().regex(/^([0-1]?[0-9]|2[0-3]):[0-5][0-9]$/)
MatchesTimeRegex(s) ==
    \/ /\ Len(s) = 4
       /\ IsDigit(s[1])
       /\ s[2] = ChColon
       /\ InRange(s[3], 0, 5)
       /\ IsDigit(s[4])
    \/ /\ Len(s) = 5
       /\ \/ InRange(s[1], 0, 1) /\ IsDigit(s[2])
          \/ s[1] = Ch0 + 2 /\ InRange(s[2], 0, 3)
       /\ s[3] = ChColon
       /\ InRange(s[4], 0, 5)
       /\ IsDigit(s[5])

\* JavaScript's < on strings: code unit by code unit, a proper prefix is less.
RECURSIVE StrLess(_, _)
StrLess(a, b) ==
    IF Len(b) = 0 THEN FALSE
    ELSE IF Len(a) = 0 THEN TRUE
    ELSE IF Head(a) # Head(b) THEN Head(a) < Head(b)
    ELSE StrLess(Tail(a), Tail(b))

StrLessEq(a, b) == a = b \/ StrLess(a, b)

\* Number("09") on a string of decimal digits.
RECURSIVE ToNumber(_)
ToNumber(s) ==
    IF Len(s) = 0 THEN 0
    ELSE 10 * ToNumber(SubSeq(s, 1, Len(s) - 1)) + (s[Len(s)] - Ch0)

ColonAt(s) == CHOOSE i \in 1..Len(s) : s[i] = ChColon

\* const [hours, minutes] = time.split(':').map(Number); hours * 60 + minutes
timeToMinutes(time) ==
    LET i == ColonAt(time)
        hours == ToNumber(SubSeq(time, 1, i - 1))
        minutes == ToNumber(SubSeq(time, i + 1, Len(time)))
    IN  hours * 60 + minutes

(***************************************************************************)
(* IEEE-754 binary64 arithmetic on the values calculateHours produces.     *)
(* Every double that occurs is a multiple of 2^-58 (the least one is       *)
(* 1/60 > 2^-6), so a double is [neg, mag] with mag its magnitude in       *)
(* units of 2^-58, written in three limbs of LimbBits bits, most           *)
(* significant first.                                                      *)
(***************************************************************************)
LimbBits == 22
Limb == 2 ^ LimbBits
MantissaBits == 53
FracBits == 58

FZero == [neg |-> FALSE, mag |-> <<0, 0, 0>>]

RECURSIVE BitLen(_)
BitLen(x) == IF x = 0 THEN 0 ELSE 1 + BitLen(x \div 2)

MagBitLen(m) ==
    IF m[1] > 0 THEN 2 * LimbBits + BitLen(m[1])
    ELSE IF m[2] > 0 THEN LimbBits + BitLen(m[2])
    ELSE BitLen(m[3])

MagAdd(x, y) ==
    LET s3 == x[3] + y[3]
        s2 == x[2] + y[2] + (s3 \div Limb)
        s1 == x[1] + y[1] + (s2 \div Limb)
    IN  <<s1, s2 % Limb, s3 % Limb>>

\* x - y for x >= y
MagSub(x, y) ==
    LET d3 == x[3] - y[3]
        b3 == IF d3 < 0 THEN 1 ELSE 0
        d2 == x[2] - y[2] - b3
        b2 == IF d2 < 0 THEN 1 ELSE 0
        d1 == x[1] - y[1] - b2
    IN  <<d1, d2 + b2 * Limb, d3 + b3 * Limb>>

MagLess(x, y) ==
    \/ x[1] < y[1]
    \/ x[1] = y[1] /\ x[2] < y[2]
    \/ x[1] = y[1] /\ x[2] = y[2] /\ x[3] < y[3]

\* Round the exact magnitude m + num/den (0 <= num < den) to MantissaBits
\* significant bits, to nearest, ties to even.
MagRound(m, num, den) ==
    LET k == MagBitLen(m) - MantissaBits
        unit == IF k > 0 THEN 2 ^ k ELSE 1
        low == m[3] % unit
        base == <<m[1], m[2], m[3] - low>>
        odd == ((m[3] \div unit) % 2) = 1
        rest == 2 * (low * den + num)
        half == unit * den
        up == rest > half \/ (rest = half /\ odd)
    IN  IF up THEN MagAdd(base, <<0, 0, unit>>) ELSE base

\* The double nearest to n / 60, n an integer number of minutes.
FDiv60(n) ==
    LET a == IF n < 0 THEN 0 - n ELSE n
        n1 == a * 2 ^ (FracBits - 2 * LimbBits)
        q1 == n1 \div 60
        n2 == (n1 % 60) * Limb
        q2 == n2 \div 60
        n3 == (n2 % 60) * Limb
        q3 == n3 \div 60
    IN  IF a = 0 THEN FZero
        ELSE [neg |-> n < 0, mag |-> MagRound(<<q1, q2, q3>>, n3 % 60, 60)]

\* The double of an integer number of hours.
FInt(h) ==
    [neg |-> h < 0,
     mag |-> <<(IF h < 0 THEN 0 - h ELSE h) * 2 ^ (FracBits - 2 * LimbBits), 0, 0>>]

\* x + y, rounded
FAdd(x, y) ==
    IF x.neg = y.neg
    THEN [neg |-> x.neg, mag |-> MagRound(MagAdd(x.mag, y.mag), 0, 1)]
    ELSE IF x.mag = y.mag THEN FZero
    ELSE IF MagLess(x.mag, y.mag)
    THEN [neg |-> y.neg, mag |-> MagRound(MagSub(y.mag, x.mag), 0, 1)]
    ELSE [neg |-> x.neg, mag |-> MagRound(MagSub(x.mag, y.mag), 0, 1)]

\* x > y
FGreater(x, y) ==
    IF x.neg # y.neg THEN y.neg
    ELSE IF x.neg THEN MagLess(x.mag, y.mag)
    ELSE MagLess(y.mag, x.mag)

\* The length of the window in hours whichever bound comes first
calculateHoursAbs(startTime, endTime) ==
    LET startMinutes == timeToMinutes(startTime)
        endMinutes == timeToMinutes(endTime)
    IN  IF endMinutes < startMinutes
        THEN FDiv60(startMinutes - endMinutes)
        ELSE FDiv60(endMinutes - startMinutes)

\* (endMinutes - startMinutes) / 60
calculateHours(startTime, endTime) ==
    LET startMinutes == timeToMinutes(startTime)
        endMinutes == timeToMinutes(endTime)
    IN  FDiv60(endMinutes - startMinutes)


(***************************************************************************)
(* Dates.  A Date is [day, ms]: the local calendar day, counted from       *)
(* 1970-01-01, and the millisecond of that day.  The server clock is UTC,  *)
(* so a date-only string "YYYY-MM-DD" parses to 00:00:00.000 of that day.  *)
(***************************************************************************)
MsPerDay == 86400000

DaysFromCivil(y, m, d) ==
    LET yy == IF m <= 2 THEN y - 1 ELSE y
        era == yy \div 400
        yoe == yy - era * 400
        mp == IF m > 2 THEN m - 3 ELSE m + 9
        doy == (153 * mp + 2) \div 5 + d - 1
        doe == yoe * 365 + yoe \div 4 - yoe \div 100 + doy
    IN  era * 146097 + doe - 719468

CivilFromDays(n) ==
    LET z == n + 719468
        era == z \div 146097
        doe == z - era * 146097
        yoe == (doe - doe \div 1460 + doe \div 36524 - doe \div 146096) \div 365
        doy == doe - (365 * yoe + yoe \div 4 - yoe \div 100)
        mp == (5 * doy + 2) \div 153
        d == doy - (153 * mp + 2) \div 5 + 1
        m == IF mp < 10 THEN mp + 3 ELSE mp - 9
        y == yoe + era * 400 + (IF m <= 2 THEN 1 ELSE 0)
    IN  [year |-> y, month |-> m, day |-> d]

\* new Date("YYYY-MM-DD"), the string given as [year, month, day]
NewDate(s) == [day |-> DaysFromCivil(s.year, s.month, s.day), ms |-> 0]

\* Date.prototype.getDay: 0 = Sunday .. 6 = Saturday (1970-01-01 was a Thursday)
getDay(date) == (date.day + 4) % 7

\* Date.prototype.getDate: the day of the month
getDate(date) == CivilFromDays(date.day).day

\* Date.prototype.setDate: day n of the date's month, n outside the month
\* carrying into the months before and after
setDate(date, n) ==
    LET c == CivilFromDays(date.day)
    IN  [day |-> DaysFromCivil(c.year, c.month, 1) + n - 1, ms |-> date.ms]

\* Date.prototype.setHours(h, min, s, ms)
setHours(date, h, mi, s, ms) ==
    [day |-> date.day, ms |-> ((h * 60 + mi) * 60 + s) * 1000 + ms]

DateLeq(a, b) == a.day < b.day \/ (a.day = b.day /\ a.ms <= b.ms)

\* getWeekBounds without the Sunday case: diff = date - day + 1 for every day
getWeekBoundsFromSunday(date) ==
    LET d == date
        dayOfWeek == getDay(d)
        diff == getDate(d) - dayOfWeek + 1
        startOfWeek == setHours(setDate(d, diff), 0, 0, 0, 0)
        endOfWeek == setHours(setDate(startOfWeek, getDate(startOfWeek) + 6),
                              23, 59, 59, 999)
    IN  [startOfWeek |-> startOfWeek, endOfWeek |-> endOfWeek]

getWeekBounds(date) ==
    LET d == date
        dayOfWeek == getDay(d)
        diff == getDate(d) - dayOfWeek + (IF dayOfWeek = 0 THEN 0 - 6 ELSE 1)
        startOfWeek == setHours(setDate(d, diff), 0, 0, 0, 0)
        endOfWeek == setHours(setDate(startOfWeek, getDate(startOfWeek) + 6),
                              23, 59, 59, 999)
    IN  [startOfWeek |-> startOfWeek, endOfWeek |-> endOfWeek]

(***************************************************************************)
(* The store: the tables the Prisma client reads and writes.               *)
(*   entries       ScheduleEntry rows  [id, workerId, date, startTime,     *)
(*                 endTime, serviceJobId]                                  *)
(*   availability  WorkerAvailability rows [workerId, dayOfWeek,           *)
(*                 startTime, endTime], unique on (workerId, dayOfWeek)    *)
(*   workers       Worker rows [id, maxHoursPerWeek]                       *)
(*   jobs          ServiceJob rows [id, status, scheduledDate]             *)
(*   nextId        the id the next created entry gets                      *)
(*   call          the request in progress: NoCall, or the operation, its  *)
(*                 arguments and what it answered                          *)
(***************************************************************************)
VARIABLES entries, availability, workers, jobs, nextId, call

vars == <<entries, availability, workers, jobs, nextId, call>>

store == <<entries, availability, workers, jobs, nextId>>

\* The sequences that list the elements of S once each: the orders in which
\* a findMany without orderBy may return the rows S.
Orders(S) ==
    {f \in [1..Cardinality(S) -> S] : \A i, j \in 1..Cardinality(S) : f[i] = f[j] => i = j}

Truthy(x) == x # NULL
Found(row) == row # NoRow

(***************************************************************************)
(* checkScheduleConflicts                                                  *)
(***************************************************************************)
\* findEntries without the id filter
findEntriesAll(rows, workerId, gte, lte, excludeEntryId) ==
    {e \in rows :
        /\ e.workerId = workerId
        /\ DateLeq(gte, e.date)
        /\ DateLeq(e.date, lte)}

\* prisma.scheduleEntry.findMany({ where: { workerId, date: { gte, lte },
\*   ...(excludeEntryId ? { id: { not: excludeEntryId } } : {}) } })
findEntries(rows, workerId, gte, lte, excludeEntryId) ==
    {e \in rows :
        /\ e.workerId = workerId
        /\ DateLeq(gte, e.date)
        /\ DateLeq(e.date, lte)
        /\ (excludeEntryId # NoId => e.id # excludeEntryId)}

\* hasOverlap with closed intervals: windows that touch count as overlapping
hasOverlapClosed(newStart, newEnd, existingStart, existingEnd) ==
    \/ (newStart >= existingStart /\ newStart <= existingEnd)
    \/ (newEnd >= existingStart /\ newEnd <= existingEnd)
    \/ (newStart <= existingStart /\ newEnd >= existingEnd)

hasOverlap(newStart, newEnd, existingStart, existingEnd) ==
    \/ (newStart >= existingStart /\ newStart < existingEnd)
    \/ (newEnd > existingStart /\ newEnd <= existingEnd)
    \/ (newStart <= existingStart /\ newEnd >= existingEnd)

\* Rule A that reports an overlap only when a single entry overlaps
RuleAUnlessSeveral(existingEntries, newStart, newEnd) ==
    LET hits == {i \in 1..Len(existingEntries) :
                    hasOverlap(newStart, newEnd,
                               timeToMinutes(existingEntries[i].startTime),
                               timeToMinutes(existingEntries[i].endTime))}
    IN  IF Cardinality(hits) # 1 THEN <<>>
        ELSE LET entry == existingEntries[CHOOSE i \in hits : TRUE]
             IN  <<[type |-> "TIME_OVERLAP",
                    severity |-> "error",
                    details |-> [existingEntryId |-> entry.id,
                                 existingStart |-> entry.startTime,
                                 existingEnd |-> entry.endTime]]>>

\* Rule A that stops at the first overlapping entry
RuleAFirstOnly(existingEntries, newStart, newEnd) ==
    LET hits == {i \in 1..Len(existingEntries) :
                    hasOverlap(newStart, newEnd,
                               timeToMinutes(existingEntries[i].startTime),
                               timeToMinutes(existingEntries[i].endTime))}
    IN  IF hits = {} THEN <<>>
        ELSE LET entry == existingEntries[CHOOSE i \in hits : \A j \in hits : i <= j]
             IN  <<[type |-> "TIME_OVERLAP",
                    severity |-> "error",
                    details |-> [existingEntryId |-> entry.id,
                                 existingStart |-> entry.startTime,
                                 existingEnd |-> entry.endTime]]>>

\* Rule A: the loop over existingEntries, in the order they were fetched
RECURSIVE RuleA(_, _, _)
RuleA(existingEntries, newStart, newEnd) ==
    IF existingEntries = <<>> THEN <<>>
    ELSE LET entry == Head(existingEntries)
             existingStart == timeToMinutes(entry.startTime)
             existingEnd == timeToMinutes(entry.endTime)
             rest == RuleA(Tail(existingEntries), newStart, newEnd)
         IN  IF hasOverlap(newStart, newEnd, existingStart, existingEnd)
             THEN <<[type |-> "TIME_OVERLAP",
                     severity |-> "error",
                     details |-> [existingEntryId |-> entry.id,
                                  existingStart |-> entry.startTime,
                                  existingEnd |-> entry.endTime]]>> \o rest
             ELSE rest

\* prisma.workerAvailability.findUnique({ where: { workerId_dayOfWeek } })
findAvailability(rows, workerId, dayOfWeek) ==
    LET found == {a \in rows : a.workerId = workerId /\ a.dayOfWeek = dayOfWeek}
    IN  IF found = {} THEN NoRow ELSE CHOOSE a \in found : TRUE

\* Rule B with strict containment: a window on the declared bounds is outside
RuleBStrict(avail, newStart, newEnd) ==
    IF Found(avail)
    THEN LET availStart == timeToMinutes(avail.startTime)
             availEnd == timeToMinutes(avail.endTime)
         IN  IF newStart <= availStart \/ newEnd >= availEnd
             THEN <<[type |-> "UNAVAILABLE",
                     severity |-> "error",
                     details |-> [availableStart |-> avail.startTime,
                                  availableEnd |-> avail.endTime]]>>
             ELSE <<>>
    ELSE <<[type |-> "UNAVAILABLE", severity |-> "warning"]>>

\* Rule B reporting a missing record as an error
RuleBMissingIsError(avail, newStart, newEnd) ==
    IF Found(avail)
    THEN LET availStart == timeToMinutes(avail.startTime)
             availEnd == timeToMinutes(avail.endTime)
         IN  IF newStart < availStart \/ newEnd > availEnd
             THEN <<[type |-> "UNAVAILABLE",
                     severity |-> "error",
                     details |-> [availableStart |-> avail.startTime,
                                  availableEnd |-> avail.endTime]]>>
             ELSE <<>>
    ELSE <<[type |-> "UNAVAILABLE", severity |-> "error"]>>

\* Rule B
RuleB(avail, newStart, newEnd) ==
    IF Found(avail)
    THEN LET availStart == timeToMinutes(avail.startTime)
             availEnd == timeToMinutes(avail.endTime)
         IN  IF newStart < availStart \/ newEnd > availEnd
             THEN <<[type |-> "UNAVAILABLE",
                     severity |-> "error",
                     details |-> [availableStart |-> avail.startTime,
                                  availableEnd |-> avail.endTime]]>>
             ELSE <<>>
    ELSE <<[type |-> "UNAVAILABLE", severity |-> "warning"]>>

\* prisma.worker.findUnique({ where: { id: workerId } })
findWorker(rows, workerId) ==
    LET found == {w \in rows : w.id = workerId}
    IN  IF found = {} THEN NoRow ELSE CHOOSE w \in found : TRUE

\* let totalWeekHours = 0; for (const entry of weekEntries) totalWeekHours += ...
RECURSIVE SumHours(_, _)
SumHours(total, weekEntries) ==
    IF weekEntries = <<>> THEN total
    ELSE SumHours(FAdd(total, calculateHours(Head(weekEntries).startTime,
                                             Head(weekEntries).endTime)),
                  Tail(weekEntries))

Exceeds(projectedHours, maxHoursPerWeek) == FGreater(projectedHours, FInt(maxHoursPerWeek))

\* Rule C, the worker found
RuleC(worker, weekEntries, startTime, endTime) ==
    LET totalWeekHours == SumHours(FZero, weekEntries)
        newEntryHours == calculateHours(startTime, endTime)
        projectedHours == FAdd(totalWeekHours, newEntryHours)
    IN  [projectedHours |-> projectedHours,
         found |-> IF Exceeds(projectedHours, worker.maxHoursPerWeek)
                   THEN <<[type |-> "MAX_HOURS_EXCEEDED",
                           severity |-> "warning",
                           details |-> [currentWeekHours |-> totalWeekHours,
                                        maxHoursPerWeek |-> worker.maxHoursPerWeek,
                                        newEntryHours |-> newEntryHours]]>>
                   ELSE <<>>]

NoDefaultCap == [id |-> NULL, maxHoursPerWeek |-> 0]

\* The if (worker) block with a cap of 0 for a worker that is not found
WeeklyHoursDefaultCap(worker, weekEntries, startTime, endTime) ==
    IF Found(worker)
    THEN RuleC(worker, weekEntries, startTime, endTime)
    ELSE RuleC(NoDefaultCap, weekEntries, startTime, endTime)

\* if (worker) { ... }: Rule C runs only when the worker is found
WeeklyHours(worker, weekEntries, startTime, endTime) ==
    IF Found(worker)
    THEN RuleC(worker, weekEntries, startTime, endTime)
    ELSE [projectedHours |-> NoRow, found |-> <<>>]

\* conflicts.some(...) that looks at the first detail only
SomeFirst(conflicts, severity) == conflicts # <<>> /\ conflicts[1].severity = severity

\* conflicts.some(c => c.severity === severity)
Some(conflicts, severity) == \E i \in 1..Len(conflicts) : conflicts[i].severity = severity

\* The same-day and the week window of a candidate date
DayWindow(dateObj) ==
    [gte |-> setHours(dateObj, 0, 0, 0, 0), lte |-> setHours(dateObj, 23, 59, 59, 999)]

\* The rows the two findMany calls of an evaluation match
DayRows(rows, workerId, date, excludeEntryId) ==
    LET w == DayWindow(NewDate(date))
    IN  findEntries(rows, workerId, w.gte, w.lte, excludeEntryId)

\* The week query without the id filter
WeekRowsAll(rows, workerId, date, excludeEntryId) ==
    LET w == getWeekBounds(NewDate(date))
    IN  findEntries(rows, workerId, w.startOfWeek, w.endOfWeek, NoId)

WeekRows(rows, workerId, date, excludeEntryId) ==
    LET w == getWeekBounds(NewDate(date))
    IN  findEntries(rows, workerId, w.startOfWeek, w.endOfWeek, excludeEntryId)

\* An evaluator that returns as soon as Rule A has found an overlap
checkScheduleConflictsShortCircuit(av, ws, workerId, date, startTime, endTime, existingEntries, weekEntries) ==
    LET newStart == timeToMinutes(startTime)
        newEnd == timeToMinutes(endTime)
        ruleA == RuleA(existingEntries, newStart, newEnd)
        ruleB == RuleB(findAvailability(av, workerId, getDay(NewDate(date))), newStart, newEnd)
        ruleC == WeeklyHours(findWorker(ws, workerId), weekEntries, startTime, endTime)
        conflicts == IF ruleA # <<>> THEN ruleA ELSE ruleA \o ruleB \o ruleC.found
    IN  [hasConflict |-> Some(conflicts, "error"),
         hasWarning |-> Some(conflicts, "warning"),
         conflicts |-> conflicts,
         projectedHours |-> ruleC.projectedHours]

\* checkScheduleConflicts(workerId, date, startTime, endTime, excludeEntryId) on
\* the tables av and ws; existingEntries and weekEntries are the results of its
\* two findMany calls (which apply excludeEntryId), in the order the store
\* returned them.  projectedHours is the local
\* of that name (NoRow when the worker is not found).
checkScheduleConflicts(av, ws, workerId, date, startTime, endTime, existingEntries, weekEntries) ==
    LET dateObj == NewDate(date)
        newStart == timeToMinutes(startTime)
        newEnd == timeToMinutes(endTime)
        ruleA == RuleA(existingEntries, newStart, newEnd)
        dayOfWeek == getDay(dateObj)
        ruleB == RuleB(findAvailability(av, workerId, dayOfWeek), newStart, newEnd)
        worker == findWorker(ws, workerId)
        ruleC == WeeklyHours(worker, weekEntries, startTime, endTime)
        conflicts == ruleA \o ruleB \o ruleC.found
    IN  [hasConflict |-> Some(conflicts, "error"),
         hasWarning |-> Some(conflicts, "warning"),
         conflicts |-> conflicts,
         projectedHours |-> ruleC.projectedHours]

(***************************************************************************)
(* The requests the model sends.                                           *)
(***************************************************************************)
T0900 == <<57, 58, 48, 48>>        \* "9:00"
T0920 == <<57, 58, 50, 48>>        \* "9:20"
T1140 == <<49, 49, 58, 52, 48>>    \* "11:40"
T2400 == <<50, 52, 58, 48, 48>>    \* "24:00", which the schema rejects

TimePool == {T0900, T0920, T1140}

\* The windows requests carry, as <<startTime, endTime>>: three with
\* start < end (two of them touching at 9:20) and one with end < start,
\* which the schema accepts as well.
Windows == {<<T0900, T0920>>, <<T0920, T1140>>, <<T0900, T1140>>, <<T1140, T0900>>}

Sun31Dec == [year |-> 2023, month |-> 12, day |-> 31]
Mon01Jan == [year |-> 2024, month |-> 1, day |-> 1]
Sun07Jan == [year |-> 2024, month |-> 1, day |-> 7]

DateStrings == {Sun31Dec, Mon01Jan, Sun07Jan}

WorkerIds == {"w1", "w2"}

\* The workers POST /workers creates; "w2" stays an id without a Worker row.
CreatableWorkers == {"w1"}

Caps == {3}

JobIds == {"j1"}

\* Prisma's id generator, one fresh id per created row
MaxEntries == 2

EntryIds == 1..MaxEntries

Body(w, d, s, e, j) ==
    [workerId |-> w, date |-> d, startTime |-> s, endTime |-> e, serviceJobId |-> j]

\* Request bodies of POST / and POST /bulk: every window of Windows for
\* worker "w1", one body with a service job, one for the worker without a row
\* and one with a time the schema rejects.
EntryBodies ==
    {Body("w1", d, w[1], w[2], NULL) : d \in DateStrings, w \in Windows}
    \cup {Body("w1", Mon01Jan, T0900, T0920, j) : j \in JobIds}
    \cup {Body("w2", Mon01Jan, T0900, T0920, NULL), Body("w1", Mon01Jan, T2400, T0920, NULL)}

\* Request bodies of PATCH /:id: any subset of the fields may be present.
Patches ==
    {<<>>}
    \cup {[workerId |-> w] : w \in WorkerIds}
    \cup {[date |-> d] : d \in DateStrings}
    \cup {[startTime |-> T2400]}
    \cup {[startTime |-> w[1], endTime |-> w[2]] : w \in Windows}

Avail(d, s, e) == [dayOfWeek |-> d, startTime |-> s, endTime |-> e]

\* Request bodies of PUT /:id/availability
AvailabilityBodies ==
    {<<>>,
     <<Avail(1, T0920, T1140)>>,
     <<Avail(1, T0900, T0920)>>,
     <<Avail(1, T0920, T1140), Avail(1, T0900, T0920)>>}

NoCall == [op |-> "none"]

Init ==
    /\ entries = {}
    /\ availability = {}
    /\ workers = {}
    /\ jobs = {[id |-> j, status |-> "UNSCHEDULED", scheduledDate |-> NoRow] : j \in JobIds}
    /\ nextId = 1
    /\ call = NoCall

(***************************************************************************)
(* routes: schedule entries                                                *)
(***************************************************************************)
\* createScheduleEntrySchema.parse: the fields the model carries
ValidEntryBody(data) ==
    /\ MatchesTimeRegex(data.startTime)
    /\ MatchesTimeRegex(data.endTime)

\* The foreign keys of a ScheduleEntry row
ForeignKeysHold(ws, js, row) ==
    /\ \E w \in ws : w.id = row.workerId
    /\ (row.serviceJobId # NULL => \E j \in js : j.id = row.serviceJobId)

\* The inline overlap test of POST /: it compares the time strings themselves
InlineConflict(existingEntries, newStart, newEnd) ==
    \E entry \in existingEntries :
        LET existingStart == entry.startTime
            existingEnd == entry.endTime
        IN  \/ (StrLessEq(existingStart, newStart) /\ StrLess(newStart, existingEnd))
            \/ (StrLess(existingStart, newEnd) /\ StrLessEq(newEnd, existingEnd))
            \/ (StrLessEq(newStart, existingStart) /\ StrLessEq(existingEnd, newEnd))

NewRow(id, data) ==
    [id |-> id, workerId |-> data.workerId, date |-> NewDate(data.date),
     startTime |-> data.startTime, endTime |-> data.endTime,
     serviceJobId |-> data.serviceJobId]

SetJob(js, jobId, status, scheduledDate) ==
    {IF j.id = jobId THEN [id |-> j.id, status |-> status, scheduledDate |-> scheduledDate]
     ELSE j : j \in js}

Answer(op, status) == [op |-> op, status |-> status]

\* POST /
CreateEntry(data) ==
    /\ call = NoCall
    /\ nextId <= MaxEntries
    /\ IF ~ValidEntryBody(data)
       THEN /\ call' = Answer("create", 400)
            /\ UNCHANGED store
       ELSE LET dateObj == NewDate(data.date)
                w == DayWindow(dateObj)
                existingEntries == findEntries(entries, data.workerId, w.gte, w.lte, NoId)
            IN  IF InlineConflict(existingEntries, data.startTime, data.endTime)
                THEN /\ call' = Answer("create", 400)
                     /\ UNCHANGED store
                ELSE IF ~ForeignKeysHold(workers, jobs, data)
                THEN /\ call' = Answer("create", 500)
                     /\ UNCHANGED store
                ELSE /\ entries' = entries \cup {NewRow(nextId, data)}
                     /\ nextId' = nextId + 1
                     /\ jobs' = IF Truthy(data.serviceJobId)
                                THEN SetJob(jobs, data.serviceJobId, "SCHEDULED", dateObj)
                                ELSE jobs
                     /\ call' = Answer("create", 201)
                     /\ UNCHANGED <<availability, workers>>

\* POST /bulk: one transaction of creates, no check
BulkCreate(entriesData) ==
    /\ call = NoCall
    /\ nextId + Len(entriesData) - 1 <= MaxEntries
    /\ IF \E i \in 1..Len(entriesData) : ~ValidEntryBody(entriesData[i])
       THEN /\ call' = Answer("bulk", 400)
            /\ UNCHANGED store
       ELSE IF \E i \in 1..Len(entriesData) : ~ForeignKeysHold(workers, jobs, entriesData[i])
       THEN /\ call' = Answer("bulk", 500)
            /\ UNCHANGED store
       ELSE /\ entries' = entries \cup
                  {NewRow(nextId + i - 1, entriesData[i]) : i \in 1..Len(entriesData)}
            /\ nextId' = nextId + Len(entriesData)
            /\ call' = Answer("bulk", 201)
            /\ UNCHANGED <<availability, workers, jobs>>

Has(data, field) == field \in DOMAIN data

\* prisma.scheduleEntry.update: the fields present replace the row's
Patched(row, data) ==
    [id |-> row.id,
     workerId |-> IF Has(data, "workerId") THEN data.workerId ELSE row.workerId,
     date |-> IF Has(data, "date") THEN NewDate(data.date) ELSE row.date,
     startTime |-> IF Has(data, "startTime") THEN data.startTime ELSE row.startTime,
     endTime |-> IF Has(data, "endTime") THEN data.endTime ELSE row.endTime,
     serviceJobId |-> IF Has(data, "serviceJobId") THEN data.serviceJobId
                      ELSE row.serviceJobId]

\* updateScheduleEntrySchema.parse
ValidPatch(data) ==
    /\ (Has(data, "startTime") => MatchesTimeRegex(data.startTime))
    /\ (Has(data, "endTime") => MatchesTimeRegex(data.endTime))

\* PATCH /:id
UpdateEntry(id, data) ==
    /\ call = NoCall
    /\ IF ~ValidPatch(data)
       THEN /\ call' = Answer("update", 400)
            /\ UNCHANGED store
       ELSE IF \A e \in entries : e.id # id
       THEN /\ call' = Answer("update", 500)
            /\ UNCHANGED store
       ELSE LET row == CHOOSE e \in entries : e.id = id
                new == Patched(row, data)
            IN  IF ~ForeignKeysHold(workers, jobs, new)
                THEN /\ call' = Answer("update", 500)
                     /\ UNCHANGED store
                ELSE /\ entries' = (entries \ {row}) \cup {new}
                     /\ call' = Answer("update", 200)
                     /\ UNCHANGED <<availability, workers, jobs, nextId>>

\* A DELETE /:id that reverts the job without counting the remaining entries
DeleteEntryAlwaysReverts(id) ==
    /\ call = NoCall
    /\ IF \A e \in entries : e.id # id
       THEN /\ call' = Answer("delete", 404)
            /\ UNCHANGED store
       ELSE LET entry == CHOOSE e \in entries : e.id = id
            IN  /\ entries' = entries \ {entry}
                /\ jobs' = IF Truthy(entry.serviceJobId)
                           THEN SetJob(jobs, entry.serviceJobId, "UNSCHEDULED", NoRow)
                           ELSE jobs
                /\ call' = [op |-> "delete", status |-> 204, entry |-> entry]
                /\ UNCHANGED <<availability, workers, nextId>>

\* DELETE /:id; the answer keeps the handler's local `entry`, the row deleted
DeleteEntry(id) ==
    /\ call = NoCall
    /\ IF \A e \in entries : e.id # id
       THEN /\ call' = Answer("delete", 404)
            /\ UNCHANGED store
       ELSE LET entry == CHOOSE e \in entries : e.id = id
                left == entries \ {entry}
                remainingEntries ==
                    Cardinality({e \in left : e.serviceJobId = entry.serviceJobId})
            IN  /\ entries' = left
                /\ jobs' = IF Truthy(entry.serviceJobId) /\ remainingEntries = 0
                           THEN SetJob(jobs, entry.serviceJobId, "UNSCHEDULED", NoRow)
                           ELSE jobs
                /\ call' = [op |-> "delete", status |-> 204, entry |-> entry]
                /\ UNCHANGED <<availability, workers, nextId>>

(***************************************************************************)
(* routes: workers                                                         *)
(***************************************************************************)
\* POST / of the worker routes
CreateWorker(id, maxHoursPerWeek) ==
    /\ call = NoCall
    /\ IF \E w \in workers : w.id = id
       THEN /\ call' = Answer("worker", 400)
            /\ UNCHANGED store
       ELSE /\ workers' = workers \cup {[id |-> id, maxHoursPerWeek |-> maxHoursPerWeek]}
            /\ call' = Answer("worker", 201)
            /\ UNCHANGED <<entries, availability, jobs, nextId>>

\* PUT /:id/availability with the deleteMany and the creates made one by one:
\* the rows written before the create that fails stay
SetAvailabilityUnbatched(workerId, availabilityData) ==
    /\ call = NoCall
    /\ IF \A w \in workers : w.id # workerId
       THEN /\ call' = Answer("availability", 404)
            /\ UNCHANGED store
       ELSE /\ availability' =
                  {a \in availability : a.workerId # workerId}
                  \cup {[workerId |-> workerId,
                         dayOfWeek |-> availabilityData[i].dayOfWeek,
                         startTime |-> availabilityData[i].startTime,
                         endTime |-> availabilityData[i].endTime] :
                        i \in {k \in 1..Len(availabilityData) :
                                  \A j \in 1..(k - 1) :
                                      availabilityData[j].dayOfWeek
                                          # availabilityData[k].dayOfWeek}}
            /\ call' = IF \E i, j \in 1..Len(availabilityData) :
                             i # j /\ availabilityData[i].dayOfWeek = availabilityData[j].dayOfWeek
                       THEN Answer("availability", 500)
                       ELSE Answer("availability", 200)
            /\ UNCHANGED <<entries, workers, jobs, nextId>>

\* PUT /:id/availability: deleteMany and the creates in one transaction; a
\* second row for the same (workerId, dayOfWeek) violates the unique key and
\* rolls the transaction back
SetAvailability(workerId, availabilityData) ==
    /\ call = NoCall
    /\ IF \A w \in workers : w.id # workerId
       THEN /\ call' = Answer("availability", 404)
            /\ UNCHANGED store
       ELSE IF \E i, j \in 1..Len(availabilityData) :
                  i # j /\ availabilityData[i].dayOfWeek = availabilityData[j].dayOfWeek
       THEN /\ call' = Answer("availability", 500)
            /\ UNCHANGED store
       ELSE /\ availability' =
                  {a \in availability : a.workerId # workerId}
                  \cup {[workerId |-> workerId,
                         dayOfWeek |-> availabilityData[i].dayOfWeek,
                         startTime |-> availabilityData[i].startTime,
                         endTime |-> availabilityData[i].endTime] :
                        i \in 1..Len(availabilityData)}
            /\ call' = Answer("availability", 200)
            /\ UNCHANGED <<entries, workers, jobs, nextId>>

(***************************************************************************)
(* A call of checkScheduleConflicts, run to completion.  The week query is *)
(* made only when the worker is found.                                     *)
(***************************************************************************)
\* A call that saves the candidate it found no error for
EvaluateAndSave(workerId, date, startTime, endTime, excludeEntryId) ==
    /\ call = NoCall
    /\ \E existingEntries \in Orders(DayRows(entries, workerId, date, excludeEntryId)),
          weekEntries \in (IF Found(findWorker(workers, workerId))
                           THEN Orders(WeekRows(entries, workerId, date, excludeEntryId))
                           ELSE {<<>>}) :
          LET result == checkScheduleConflicts(availability, workers, workerId, date,
                                               startTime, endTime,
                                               existingEntries, weekEntries)
              save == ~result.hasConflict /\ nextId <= MaxEntries
          IN  /\ call' = [op |-> "check",
                          workerId |-> workerId, date |-> date,
                          startTime |-> startTime, endTime |-> endTime,
                          excludeEntryId |-> excludeEntryId,
                          existingEntries |-> existingEntries,
                          weekEntries |-> weekEntries,
                          result |-> result]
              /\ entries' = IF save
                            THEN entries \cup {NewRow(nextId, Body(workerId, date, startTime,
                                                                   endTime, NULL))}
                            ELSE entries
              /\ nextId' = IF save THEN nextId + 1 ELSE nextId
    /\ UNCHANGED <<availability, workers, jobs>>

Evaluate(workerId, date, startTime, endTime, excludeEntryId) ==
    /\ call = NoCall
    /\ \E existingEntries \in Orders(DayRows(entries, workerId, date, excludeEntryId)),
          weekEntries \in (IF Found(findWorker(workers, workerId))
                           THEN Orders(WeekRows(entries, workerId, date, excludeEntryId))
                           ELSE {<<>>}) :
          call' = [op |-> "check",
                   workerId |-> workerId, date |-> date,
                   startTime |-> startTime, endTime |-> endTime,
                   excludeEntryId |-> excludeEntryId,
                   existingEntries |-> existingEntries,
                   weekEntries |-> weekEntries,
                   result |-> checkScheduleConflicts(availability, workers, workerId, date,
                                                     startTime, endTime,
                                                     existingEntries, weekEntries)]
    /\ UNCHANGED store

\* The response is sent; the server takes the next request
Return ==
    /\ call # NoCall
    /\ call' = NoCall
    /\ UNCHANGED store

\* The calls of checkScheduleConflicts: every candidate and excludeEntryId for
\* worker "w1", every window on one date for the id without a Worker row.
CheckCalls ==
    {[workerId |-> "w1", date |-> d, startTime |-> w[1], endTime |-> w[2],
      excludeEntryId |-> x] : d \in DateStrings, w \in Windows, x \in {NoId} \cup EntryIds}
    \cup {[workerId |-> "w2", date |-> Mon01Jan, startTime |-> w[1], endTime |-> w[2],
           excludeEntryId |-> NoId] : w \in Windows}

Batches == {<<b>> : b \in EntryBodies} \cup {<<a, b>> : a \in EntryBodies, b \in EntryBodies}

Next ==
    \/ \E data \in EntryBodies : CreateEntry(data)
    \/ \E entriesData \in Batches : BulkCreate(entriesData)
    \/ \E id \in EntryIds, data \in Patches : UpdateEntry(id, data)
    \/ \E id \in EntryIds : DeleteEntry(id)
    \/ \E id \in CreatableWorkers, cap \in Caps : CreateWorker(id, cap)
    \/ \E workerId \in WorkerIds, body \in AvailabilityBodies : SetAvailability(workerId, body)
    \/ \E c \in CheckCalls :
          Evaluate(c.workerId, c.date, c.startTime, c.endTime, c.excludeEntryId)
    \/ Return

Spec == Init /\ [][Next]_vars

(***************************************************************************)
(* getWeekBounds on its own: a pair of Date values, each any day of three  *)
(* weeks around a year's end or of three weeks around the end of a leap    *)
(* February, at the start, the middle or the last millisecond of the day.  *)
(***************************************************************************)
WeekDays ==
    (DaysFromCivil(2019, 12, 23)..DaysFromCivil(2020, 1, 12))
    \cup (DaysFromCivil(2020, 2, 17)..DaysFromCivil(2020, 3, 8))

DayTimes == {0, MsPerDay \div 2, MsPerDay - 1}

WeekDates == {[day |-> n, ms |-> ms] : n \in WeekDays, ms \in DayTimes}

GetWeekBounds(a, b) ==
    /\ call = NoCall
    /\ call' = [op |-> "week", a |-> a, b |-> b,
                boundsA |-> getWeekBounds(a), boundsB |-> getWeekBounds(b)]
    /\ UNCHANGED store

NextWeek ==
    \/ \E a \in WeekDates, b \in WeekDates : GetWeekBounds(a, b)
    \/ Return

SpecWeek == Init /\ [][NextWeek]_vars

(***************************************************************************)
(* checkBulkScheduleConflicts.  Every await of the loop is a call of       *)
(* checkScheduleConflicts that runs to completion on the store.            *)
(***************************************************************************)
\* The results one call checkScheduleConflicts(workerId, date, startTime,
\* endTime, excludeEntryId) can return on the tables es, av and ws: one for
\* every order in which the store may return the rows of the two findMany
Evaluations(es, av, ws, workerId, date, startTime, endTime, excludeEntryId) ==
    {checkScheduleConflicts(av, ws, workerId, date, startTime, endTime, existingEntries, weekEntries) :
        existingEntries \in Orders(DayRows(es, workerId, date, excludeEntryId)),
        weekEntries \in (IF Found(findWorker(ws, workerId))
                         THEN Orders(WeekRows(es, workerId, date, excludeEntryId))
                         ELSE {<<>>})}

\* const result = await checkScheduleConflicts(entry.workerId, entry.date,
\* entry.startTime, entry.endTime)
BulkEvaluations(es, av, ws, entry) ==
    Evaluations(es, av, ws, entry.workerId, entry.date, entry.startTime, entry.endTime, NoId)

\* A loop body that pushes every result
BulkPushAll(acc, i, result) ==
    [evaluations |-> Append(acc.evaluations, result),
     results |-> Append(acc.results, [index |-> i, result |-> result])]

\* if (result.hasConflict || result.hasWarning) results.push({ index: i, result })
\* evaluations keeps the local `result` of every iteration
BulkPush(acc, i, result) ==
    [evaluations |-> Append(acc.evaluations, result),
     results |-> IF result.hasConflict \/ result.hasWarning
                 THEN Append(acc.results, [index |-> i, result |-> result])
                 ELSE acc.results]

\* A loop that shows candidate i the candidates before it as entries
RECURSIVE BulkLoopCrossChecked(_, _, _, _, _, _)
BulkLoopCrossChecked(es, av, ws, batch, i, acc) ==
    IF ~(i < Len(batch)) THEN {acc}
    ELSE LET entry == batch[i + 1]
             row == [id |-> MaxEntries + i + 1, workerId |-> entry.workerId,
                     date |-> NewDate(entry.date), startTime |-> entry.startTime,
                     endTime |-> entry.endTime, serviceJobId |-> NULL]
         IN  UNION {BulkLoopCrossChecked(es \cup {row}, av, ws, batch, i + 1, BulkPush(acc, i, result)) :
                        result \in BulkEvaluations(es, av, ws, entry)}

\* for (let i = 0; i < entries.length; i++) { ... }: the outcomes of the loop
\* from index i on, acc holding what the iterations before i have pushed
RECURSIVE BulkLoop(_, _, _, _, _, _)
BulkLoop(es, av, ws, batch, i, acc) ==
    IF ~(i < Len(batch)) THEN {acc}
    ELSE UNION {BulkLoop(es, av, ws, batch, i + 1, BulkPush(acc, i, result)) :
                    result \in BulkEvaluations(es, av, ws, batch[i + 1])}

\* checkBulkScheduleConflicts(entries): const results = []; the loop; return results
checkBulkScheduleConflicts(es, av, ws, batch) ==
    BulkLoop(es, av, ws, batch, 0, [evaluations |-> <<>>, results |-> <<>>])

\* A call of checkBulkScheduleConflicts
EvaluateBulk(batch) ==
    /\ call = NoCall
    /\ \E out \in checkBulkScheduleConflicts(entries, availability, workers, batch) :
          call' = [op |-> "bulkcheck", entries |-> batch,
                   evaluations |-> out.evaluations, results |-> out.results]
    /\ UNCHANGED store

Candidate(w, d, s, e) == [workerId |-> w, date |-> d, startTime |-> s, endTime |-> e]

\* The candidates of a bulk call: three windows on a Monday, two of them
\* overlapping each other, and one on a Sunday
BulkCandidates ==
    {Candidate("w1", Mon01Jan, T0920, T1140), Candidate("w1", Mon01Jan, T0900, T1140),
     Candidate("w1", Mon01Jan, T0900, T0920), Candidate("w1", Sun07Jan, T0900, T0920)}

MaxBatch == 4

RECURSIVE SeqsUpTo(_, _)
SeqsUpTo(S, n) ==
    IF n = 0 THEN {<<>>}
    ELSE SeqsUpTo(S, n - 1) \cup {Append(q, x) : q \in {r \in SeqsUpTo(S, n - 1) : Len(r) = n - 1}, x \in S}

CandidateBatches == SeqsUpTo(BulkCandidates, MaxBatch)

\* The entries and availability the store holds when the evaluators are called
SeedBodies ==
    {Body("w1", Mon01Jan, T0900, T0920, NULL), Body("w1", Mon01Jan, T0920, T1140, NULL),
     Body("w1", Sun07Jan, T0900, T1140, NULL)}

SeedAvailability == {<<>>, <<Avail(1, T0900, T1140)>>, <<Avail(1, T0920, T1140)>>}

NextBulk ==
    \/ \E id \in CreatableWorkers, cap \in Caps : CreateWorker(id, cap)
    \/ \E workerId \in CreatableWorkers, body \in SeedAvailability : SetAvailability(workerId, body)
    \/ \E data \in SeedBodies : CreateEntry(data)
    \/ \E c \in CheckCalls :
          Evaluate(c.workerId, c.date, c.startTime, c.endTime, c.excludeEntryId)
    \/ \E batch \in CandidateBatches : EvaluateBulk(batch)
    \/ Return

SpecBulk == Init /\ [][NextBulk]_vars

(***************************************************************************)
(* POST / step by step: requests are served concurrently, and a handler    *)
(* yields at each await, so the steps of two requests interleave.          *)
(***************************************************************************)
MaxRequests == 2

Requests == 1..MaxRequests

Idle == [pc |-> "idle"]

\* The handler invocations in flight
Reqs == IF call = NoCall THEN [p \in Requests |-> Idle] ELSE call.reqs

Serving(reqs) == [op |-> "creating", reqs |-> reqs]

\* The invocations that may still create a row
Pending(reqs) == {p \in Requests : reqs[p].pc \in {"read", "create"}}

\* A request arrives: createScheduleEntrySchema.parse(req.body)
Arrive(p, data) ==
    /\ call = NoCall \/ call.op = "creating"
    /\ Reqs[p].pc = "idle"
    /\ nextId + Cardinality(Pending(Reqs)) <= MaxEntries
    /\ call' = Serving([Reqs EXCEPT ![p] =
                    IF ValidEntryBody(data)
                    THEN [pc |-> "read", data |-> data]
                    ELSE [pc |-> "answered", status |-> 400]])
    /\ UNCHANGED store

\* await prisma.scheduleEntry.findMany(...), then the inline overlap test on
\* the rows read
ReadExisting(p) ==
    /\ call # NoCall
    /\ call.op = "creating"
    /\ call.reqs[p].pc = "read"
    /\ LET data == call.reqs[p].data
           w == DayWindow(NewDate(data.date))
           existingEntries == findEntries(entries, data.workerId, w.gte, w.lte, NoId)
       IN  call' = Serving([call.reqs EXCEPT ![p] =
                      IF InlineConflict(existingEntries, data.startTime, data.endTime)
                      THEN [pc |-> "answered", status |-> 400]
                      ELSE [pc |-> "create", data |-> data,
                            existingEntries |-> existingEntries]])
    /\ UNCHANGED store

\* A create that repeats the overlap test on the rows of the table
PersistRechecked(p) ==
    /\ call # NoCall
    /\ call.op = "creating"
    /\ call.reqs[p].pc = "create"
    /\ LET data == call.reqs[p].data
           w == DayWindow(NewDate(data.date))
           now == findEntries(entries, data.workerId, w.gte, w.lte, NoId)
       IN  IF InlineConflict(now, data.startTime, data.endTime)
                \/ ~ForeignKeysHold(workers, jobs, data)
           THEN /\ call' = Serving([call.reqs EXCEPT ![p] = [pc |-> "answered", status |-> 500]])
                /\ UNCHANGED store
           ELSE /\ entries' = entries \cup {NewRow(nextId, data)}
                /\ nextId' = nextId + 1
                /\ call' = Serving([call.reqs EXCEPT ![p] =
                               [pc |-> IF Truthy(data.serviceJobId) THEN "job" ELSE "answered",
                                status |-> 201, data |-> data, id |-> nextId,
                                existingEntries |-> call.reqs[p].existingEntries]])
                /\ UNCHANGED <<availability, workers, jobs>>

\* await prisma.scheduleEntry.create(...)
Persist(p) ==
    /\ call # NoCall
    /\ call.op = "creating"
    /\ call.reqs[p].pc = "create"
    /\ LET data == call.reqs[p].data
       IN  IF ~ForeignKeysHold(workers, jobs, data)
           THEN /\ call' = Serving([call.reqs EXCEPT ![p] = [pc |-> "answered", status |-> 500]])
                /\ UNCHANGED store
           ELSE /\ entries' = entries \cup {NewRow(nextId, data)}
                /\ nextId' = nextId + 1
                /\ call' = Serving([call.reqs EXCEPT ![p] =
                               [pc |-> IF Truthy(data.serviceJobId) THEN "job" ELSE "answered",
                                status |-> 201, data |-> data, id |-> nextId,
                                existingEntries |-> call.reqs[p].existingEntries]])
                /\ UNCHANGED <<availability, workers, jobs>>

\* if (data.serviceJobId) await prisma.serviceJob.update(...)
UpdateJob(p) ==
    /\ call # NoCall
    /\ call.op = "creating"
    /\ call.reqs[p].pc = "job"
    /\ jobs' = SetJob(jobs, call.reqs[p].data.serviceJobId, "SCHEDULED",
                      NewDate(call.reqs[p].data.date))
    /\ call' = Serving([call.reqs EXCEPT ![p].pc = "answered"])
    /\ UNCHANGED <<entries, availability, workers, nextId>>

\* res.status(...).json(...): the invocation ends
Respond(p) ==
    /\ call # NoCall
    /\ call.op = "creating"
    /\ call.reqs[p].pc = "answered"
    /\ LET reqs == [call.reqs EXCEPT ![p] = Idle]
       IN  call' = IF \A q \in Requests : reqs[q] = Idle THEN NoCall ELSE Serving(reqs)
    /\ UNCHANGED store

\* The bodies of the concurrent requests: overlapping and touching windows of
\* one worker and day, one of them with a service job
RaceBodies ==
    {Body("w1", Mon01Jan, T0900, T0920, NULL), Body("w1", Mon01Jan, T0900, T1140, NULL),
     Body("w1", Mon01Jan, T0920, T1140, NULL), Body("w1", Mon01Jan, T0900, T0920, "j1"),
     Body("w1", Mon01Jan, T2400, T0920, NULL)}

NextRace ==
    \/ \E id \in CreatableWorkers, cap \in Caps : CreateWorker(id, cap)
    \/ (call.op = "worker" /\ Return)
    \/ \E p \in Requests, data \in RaceBodies : Arrive(p, data)
    \/ \E p \in Requests : ReadExisting(p)
    \/ \E p \in Requests : Persist(p)
    \/ \E p \in Requests : UpdateJob(p)
    \/ \E p \in Requests : Respond(p)

SpecRace == Init /\ [][NextRace]_vars

(***************************************************************************)
(* checkScheduleConflicts step by step: the function yields at each of its *)
(* four awaited reads, and the writes of other requests commit in between. *)
(***************************************************************************)
\* The tables an evaluation reads, as they are at one moment
Snapshot(es, av, ws) == [entries |-> es, availability |-> av, workers |-> ws]

\* The table holding the row a findUnique returned, if any
AsTable(row) == IF Found(row) THEN {row} ELSE {}

\* The call begins: conflicts = [], dateObj, startOfDay, endOfDay.  seen
\* collects the states the store goes through while the call runs, reads
\* counts the store reads the call has issued and faults those that failed.
StartCheck(c) ==
    /\ call = NoCall
    /\ call' = [op |-> "checking", pc |-> "day",
                workerId |-> c.workerId, date |-> c.date,
                startTime |-> c.startTime, endTime |-> c.endTime,
                excludeEntryId |-> c.excludeEntryId,
                existingEntries |-> <<>>, availability |-> NoRow, worker |-> NoRow,
                seen |-> {Snapshot(entries, availability, workers)},
                reads |-> 0, faults |-> 0]
    /\ UNCHANGED store

Checking(pc) == call.op = "checking" /\ call.pc = pc

\* return { hasConflict, hasWarning, conflicts } from the rows the reads gave
Checked(existingEntries, avail, worker, weekEntries) ==
    [op |-> "checked",
     workerId |-> call.workerId, date |-> call.date,
     startTime |-> call.startTime, endTime |-> call.endTime,
     excludeEntryId |-> call.excludeEntryId,
     existingEntries |-> existingEntries, weekEntries |-> weekEntries,
     seen |-> call.seen,
     reads |-> call.reads + 1, faults |-> call.faults,
     result |-> checkScheduleConflicts(AsTable(avail), AsTable(worker), call.workerId,
                                       call.date, call.startTime, call.endTime,
                                       existingEntries, weekEntries)]

\* const existingEntries = await prisma.scheduleEntry.findMany(...)
ReadDay ==
    /\ Checking("day")
    /\ \E existingEntries \in Orders(DayRows(entries, call.workerId, call.date,
                                             call.excludeEntryId)) :
          call' = [call EXCEPT !.pc = "availability", !.existingEntries = existingEntries,
                               !.reads = @ + 1]
    /\ UNCHANGED store

\* const availability = await prisma.workerAvailability.findUnique(...)
ReadAvailability ==
    /\ Checking("availability")
    /\ call' = [call EXCEPT !.pc = "worker", !.reads = @ + 1,
                            !.availability = findAvailability(availability, call.workerId,
                                                              getDay(NewDate(call.date)))]
    /\ UNCHANGED store

\* A worker lookup after which the week query is made in any case
ReadWorkerThenWeek ==
    /\ Checking("worker")
    /\ call' = [call EXCEPT !.pc = "week", !.worker = findWorker(workers, call.workerId),
                            !.reads = @ + 1]
    /\ UNCHANGED store

\* const worker = await prisma.worker.findUnique(...); without a worker the
\* function returns
ReadWorker ==
    /\ Checking("worker")
    /\ LET worker == findWorker(workers, call.workerId)
       IN  call' = IF Found(worker)
                   THEN [call EXCEPT !.pc = "week", !.worker = worker, !.reads = @ + 1]
                   ELSE Checked(call.existingEntries, call.availability, worker, <<>>)
    /\ UNCHANGED store

\* const weekEntries = await prisma.scheduleEntry.findMany(...), the sum and
\* the return
ReadWeek ==
    /\ Checking("week")
    /\ \E weekEntries \in Orders(WeekRows(entries, call.workerId, call.date,
                                          call.excludeEntryId)) :
          call' = Checked(call.existingEntries, call.availability, call.worker, weekEntries)
    /\ UNCHANGED store

\* The prisma.scheduleEntry.create of another request commits while the call
\* is suspended
ConcurrentCreate(data) ==
    /\ call.op = "checking"
    /\ nextId <= MaxEntries
    /\ ValidEntryBody(data)
    /\ ForeignKeysHold(workers, jobs, data)
    /\ entries' = entries \cup {NewRow(nextId, data)}
    /\ nextId' = nextId + 1
    /\ call' = [call EXCEPT !.seen = @ \cup {Snapshot(entries', availability, workers)}]
    /\ UNCHANGED <<availability, workers, jobs>>

\* The prisma.scheduleEntry.delete of another request commits while the call
\* is suspended
ConcurrentDelete(id) ==
    /\ call.op = "checking"
    /\ \E e \in entries : e.id = id
    /\ entries' = {e \in entries : e.id # id}
    /\ call' = [call EXCEPT !.seen = @ \cup {Snapshot(entries', availability, workers)}]
    /\ UNCHANGED <<availability, workers, jobs, nextId>>

\* The calls that are interleaved with writes
SnapshotCalls ==
    {[workerId |-> "w1", date |-> Mon01Jan, startTime |-> w[1], endTime |-> w[2],
      excludeEntryId |-> NoId] : w \in {<<T0900, T0920>>, <<T0900, T1140>>}}
    \cup {[workerId |-> "w2", date |-> Mon01Jan, startTime |-> T0900, endTime |-> T0920,
           excludeEntryId |-> NoId]}

NextSnapshot ==
    \/ \E id \in CreatableWorkers, cap \in Caps : CreateWorker(id, cap)
    \/ \E workerId \in CreatableWorkers, body \in SeedAvailability : SetAvailability(workerId, body)
    \/ \E data \in SeedBodies : CreateEntry(data)
    \/ \E c \in SnapshotCalls : StartCheck(c)
    \/ ReadDay
    \/ ReadAvailability
    \/ ReadWorker
    \/ ReadWeek
    \/ \E data \in SeedBodies : ConcurrentCreate(data)
    \/ \E id \in EntryIds : ConcurrentDelete(id)
    \/ (call.op # "checking" /\ Return)

SpecSnapshot == Init /\ [][NextSnapshot]_vars

(***************************************************************************)
(* Store faults and the loop of checkBulkScheduleConflicts step by step.   *)
(* Neither function has a try/catch: a rejected read rejects the call.     *)
(***************************************************************************)
\* A call that answers a failed read with an empty result
FailReadMasked ==
    /\ call.op = "checking"
    /\ call' = [Checked(call.existingEntries, call.availability, call.worker, <<>>)
                   EXCEPT !.faults = @ + 1]
    /\ UNCHANGED store

\* The read the call is about to make rejects: the await throws and the
\* async function rejects with the store's error
FailRead ==
    /\ call.op = "checking"
    /\ call' = [op |-> "thrown", failed |-> call.pc,
                workerId |-> call.workerId, date |-> call.date,
                startTime |-> call.startTime, endTime |-> call.endTime,
                reads |-> call.reads + 1, faults |-> call.faults + 1]
    /\ UNCHANGED store

\* checkBulkScheduleConflicts(entries) begins: const results = []; i = 0.
\* order lists the indices whose evaluation has run.
StartBulk(batch) ==
    /\ call = NoCall
    /\ call' = [op |-> "bulking", entries |-> batch, i |-> 0, order |-> <<>>,
                evaluations |-> <<>>, results |-> <<>>, faults |-> 0]
    /\ UNCHANGED store

\* One iteration: await checkScheduleConflicts(...) returns and the result is
\* pushed if it has a finding; i++
BulkIterate ==
    /\ call.op = "bulking"
    /\ call.i < Len(call.entries)
    /\ \E result \in BulkEvaluations(entries, availability, workers, call.entries[call.i + 1]) :
          LET acc == BulkPush([evaluations |-> call.evaluations, results |-> call.results],
                              call.i, result)
          IN  call' = [call EXCEPT !.i = @ + 1, !.order = Append(@, call.i),
                                   !.evaluations = acc.evaluations,
                                   !.results = acc.results]
    /\ UNCHANGED store

\* A read of the evaluation of candidate i rejects: the await in the loop
\* throws and the function rejects; its locals are gone.  evaluated and
\* dropped count the evaluations finished and the items pushed before.
BulkFail ==
    /\ call.op = "bulking"
    /\ call.i < Len(call.entries)
    /\ call' = [op |-> "bulkthrown", entries |-> call.entries, index |-> call.i,
                evaluated |-> Len(call.evaluations), dropped |-> Len(call.results),
                faults |-> call.faults + 1]
    /\ UNCHANGED store

\* i < entries.length is false: return results
BulkReturn ==
    /\ call.op = "bulking"
    /\ ~(call.i < Len(call.entries))
    /\ call' = [op |-> "bulkchecked", entries |-> call.entries, order |-> call.order,
                evaluations |-> call.evaluations, results |-> call.results,
                faults |-> call.faults]
    /\ UNCHANGED store

MaxSteps == 3

\* The batches of the step-by-step bulk calls
StepBatches ==
    SeqsUpTo({Candidate("w1", Mon01Jan, T0920, T1140), Candidate("w1", Mon01Jan, T0900, T0920),
              Candidate("w1", Sun07Jan, T0900, T0920)}, MaxSteps)

Running == call.op \in {"checking", "bulking"}

NextFault ==
    \/ \E id \in CreatableWorkers, cap \in Caps : CreateWorker(id, cap)
    \/ \E workerId \in CreatableWorkers, body \in SeedAvailability : SetAvailability(workerId, body)
    \/ \E data \in SeedBodies : CreateEntry(data)
    \/ \E c \in SnapshotCalls : StartCheck(c)
    \/ ReadDay
    \/ ReadAvailability
    \/ ReadWorker
    \/ ReadWeek
    \/ FailRead
    \/ \E batch \in StepBatches : StartBulk(batch)
    \/ BulkIterate
    \/ BulkFail
    \/ BulkReturn
    \/ (~Running /\ Return)

SpecFault == Init /\ [][NextFault]_vars

\* Every store read returns
NextTerminates ==
    \/ \E id \in CreatableWorkers, cap \in Caps : CreateWorker(id, cap)
    \/ \E workerId \in CreatableWorkers, body \in SeedAvailability : SetAvailability(workerId, body)
    \/ \E data \in SeedBodies : CreateEntry(data)
    \/ \E c \in SnapshotCalls : StartCheck(c)
    \/ ReadDay
    \/ ReadAvailability
    \/ ReadWorker
    \/ ReadWeek
    \/ \E batch \in StepBatches : StartBulk(batch)
    \/ BulkIterate
    \/ BulkReturn
    \/ (~Running /\ Return)

\* A read that returns resolves its await, and the event loop resumes the
\* function: weak fairness of every step of a running call.  ReadWeek is enabled
\* exactly at the fourth await and BulkIterate exactly at the loop test with
\* a candidate left (each changes call), so for these two the condition
\* WF_vars(A) is written with that state predicate for ENABLED <<A>>_vars.
ResumeFairness ==
    /\ WF_vars(ReadDay)
    /\ WF_vars(ReadAvailability)
    /\ WF_vars(ReadWorker)
    /\ ([]<>(~Checking("week")) \/ []<><<ReadWeek>>_vars)
    /\ ([]<>(~(call.op = "bulking" /\ call.i < Len(call.entries)))
          \/ []<><<BulkIterate>>_vars)
    /\ WF_vars(BulkReturn)

SpecTerminates == Init /\ [][NextTerminates]_vars /\ ResumeFairness

(***************************************************************************)
(* The two overlap tests side by side: the test POST / makes on the time   *)
(* strings and the test of Rule A on minutes, for one candidate window and *)
(* one existing entry, the four strings drawn from OverlapTimes.           *)
(***************************************************************************)
T0900Padded == <<48, 57, 58, 48, 48>>    \* "09:00"

OverlapTimes == TimePool \cup {T0900Padded}

\* hasConflict of POST / on the one entry, hasOverlap of Rule A on the same
OverlapTests(newStart, newEnd, existingStart, existingEnd) ==
    /\ call = NoCall
    /\ call' = [op |-> "overlap",
                newStart |-> newStart, newEnd |-> newEnd,
                existingStart |-> existingStart, existingEnd |-> existingEnd,
                inline |-> InlineConflict({[startTime |-> existingStart, endTime |-> existingEnd]},
                                          newStart, newEnd),
                ruleA |-> hasOverlap(timeToMinutes(newStart), timeToMinutes(newEnd),
                                     timeToMinutes(existingStart), timeToMinutes(existingEnd))]
    /\ UNCHANGED store

NextOverlap ==
    \/ \E newStart \in OverlapTimes, newEnd \in OverlapTimes,
          existingStart \in OverlapTimes, existingEnd \in OverlapTimes :
          OverlapTests(newStart, newEnd, existingStart, existingEnd)
    \/ Return

SpecOverlap == Init /\ [][NextOverlap]_vars

(***************************************************************************)
(* Properties                                                              *)
(***************************************************************************)
IsCheck == call.op = "check"

NewStart == timeToMinutes(call.startTime)
NewEnd == timeToMinutes(call.endTime)

Conflicts == call.result.conflicts

OfType(type) == {i \in 1..Len(Conflicts) : Conflicts[i].type = type}

\* A TIME_OVERLAP detail names entry e
Reported(e) ==
    \E i \in OfType("TIME_OVERLAP") : Conflicts[i].details.existingEntryId = e.id

\* The Monday of the week of calendar day n (day 4, 1970-01-05, was a Monday)
MondayOf(n) == n - ((n + 3) % 7)

\* The worker's persisted entries on the candidate's calendar day and in the
\* candidate's Monday-Sunday week, the excluded one left out
SameDayOthers ==
    {e \in entries : /\ e.workerId = call.workerId
                     /\ e.date.day = DaysFromCivil(call.date.year, call.date.month, call.date.day)
                     /\ e.id # call.excludeEntryId}

SameWeek(workerId, date) ==
    {e \in entries :
        /\ e.workerId = workerId
        /\ MondayOf(e.date.day) = MondayOf(DaysFromCivil(date.year, date.month, date.day))}

Minutes(e) == timeToMinutes(e.endTime) - timeToMinutes(e.startTime)

RECURSIVE SumMinutes(_)
SumMinutes(S) ==
    IF S = {} THEN 0
    ELSE LET e == CHOOSE x \in S : TRUE IN Minutes(e) + SumMinutes(S \ {e})

CallWeekday == (DaysFromCivil(call.date.year, call.date.month, call.date.day) + 4) % 7

CallAvailability ==
    {a \in availability : a.workerId = call.workerId /\ a.dayOfWeek = CallWeekday}

CallWorker == {w \in workers : w.id = call.workerId}

\* C1: no two persisted entries of the same worker on the same calendar day
\* have overlapping time windows.
C1_NoPersistedOverlap ==
    \A a, b \in entries :
        (a.id # b.id /\ a.workerId = b.workerId /\ a.date.day = b.date.day)
        => ~(/\ timeToMinutes(a.startTime) < timeToMinutes(b.endTime)
             /\ timeToMinutes(b.startTime) < timeToMinutes(a.endTime))

\* C2: for a candidate and an existing same-day entry of the worker, both with
\* start < end, a TIME_OVERLAP detail names the entry exactly when
\* newStart < exEnd and newEnd > exStart in minutes since midnight; windows
\* that only touch do not conflict.
C2_OverlapIsHalfOpen ==
    (IsCheck /\ NewStart < NewEnd) =>
        \A e \in SameDayOthers :
            timeToMinutes(e.startTime) < timeToMinutes(e.endTime)
            => (Reported(e) <=> (/\ NewStart < timeToMinutes(e.endTime)
                                 /\ NewEnd > timeToMinutes(e.startTime)))

\* a candidate that starts where a same-day entry ends, and is not reported
C2_Witness ==
    /\ IsCheck
    /\ NewStart < NewEnd
    /\ \E e \in SameDayOthers :
          /\ timeToMinutes(e.startTime) < timeToMinutes(e.endTime)
          /\ timeToMinutes(e.endTime) = NewStart
          /\ ~Reported(e)
    /\ \E e \in SameDayOthers : Reported(e)

\* C3: the overlap test is symmetric: the candidate is reported against an
\* existing same-day entry exactly when that entry's window, taken as the
\* candidate, overlaps the candidate's window taken as the existing entry.
C3_OverlapSymmetric ==
    IsCheck =>
        \A e \in SameDayOthers :
            Reported(e) <=> hasOverlap(timeToMinutes(e.startTime), timeToMinutes(e.endTime),
                                       NewStart, NewEnd)

\* The persisted entry a call re-evaluates: excludeEntryId is its id and the
\* worker, date and window are its own
Reevaluated ==
    {x \in entries : /\ x.id = call.excludeEntryId
                     /\ x.workerId = call.workerId
                     /\ x.date = NewDate(call.date)
                     /\ x.startTime = call.startTime
                     /\ x.endTime = call.endTime}

\* C4: self-exclusion: evaluating a persisted entry X with its own worker,
\* date and window and excludeEntryId = X.id never reports X.
C4_SelfExclusion ==
    IsCheck => \A x \in Reevaluated : ~Reported(x)

\* X is re-evaluated next to another entry of the same day that is reported
C4_Witness ==
    /\ IsCheck
    /\ \E x \in Reevaluated :
          /\ NewStart < NewEnd
          /\ ~Reported(x)
          /\ \E e \in SameDayOthers : Reported(e)

\* C5: when an availability record exists for the worker on the candidate's
\* weekday, Rule B emits exactly one UNAVAILABLE error carrying the declared
\* window if newStart < availStart or newEnd > availEnd, and nothing
\* otherwise; a window equal to the declared one is no finding.
C5_RuleB ==
    IsCheck =>
        \A a \in CallAvailability :
            IF NewStart < timeToMinutes(a.startTime) \/ NewEnd > timeToMinutes(a.endTime)
            THEN /\ Cardinality(OfType("UNAVAILABLE")) = 1
                 /\ \A i \in OfType("UNAVAILABLE") :
                       /\ Conflicts[i].severity = "error"
                       /\ Conflicts[i].details =
                             [availableStart |-> a.startTime, availableEnd |-> a.endTime]
            ELSE OfType("UNAVAILABLE") = {}

\* the candidate's window is the declared window, and Rule B finds nothing
C5_Witness ==
    /\ IsCheck
    /\ \E a \in CallAvailability :
          /\ a.startTime = call.startTime
          /\ a.endTime = call.endTime
          /\ OfType("UNAVAILABLE") = {}

\* C6 as stated: with no availability record for the weekday, hasConflict is
\* false, hasWarning is true and there is one UNAVAILABLE warning.
C6_MissingAvailabilityNoConflict ==
    (IsCheck /\ CallAvailability = {}) =>
        /\ call.result.hasConflict = FALSE
        /\ call.result.hasWarning = TRUE
        /\ Cardinality(OfType("UNAVAILABLE")) = 1
        /\ \A i \in OfType("UNAVAILABLE") : Conflicts[i].severity = "warning"

\* C6, amended: with no availability record for the weekday, hasWarning is
\* true and there is exactly one UNAVAILABLE detail, of severity warning;
\* hasConflict is true exactly when Rule A reports an overlap.
C6_MissingAvailabilityIsWarning ==
    (IsCheck /\ CallAvailability = {}) =>
        /\ call.result.hasWarning = TRUE
        /\ Cardinality(OfType("UNAVAILABLE")) = 1
        /\ \A i \in OfType("UNAVAILABLE") : Conflicts[i].severity = "warning"
        /\ (call.result.hasConflict <=> OfType("TIME_OVERLAP") # {})

\* no record for the weekday, the warning is there, and Rule A's error too
C6_Witness ==
    /\ IsCheck
    /\ CallAvailability = {}
    /\ call.result.hasWarning
    /\ call.result.hasConflict
    /\ \E i \in OfType("UNAVAILABLE") : Conflicts[i].severity = "warning"

\* The week's entries Rule C sums for the call
WeekOthers == {e \in SameWeek(call.workerId, call.date) : e.id # call.excludeEntryId}

\* C7: when the worker record exists, Rule C emits exactly one
\* MAX_HOURS_EXCEEDED warning if and only if the durations of the worker's
\* entries in the candidate's week plus the candidate's duration exceed
\* maxHoursPerWeek; a total equal to the cap yields no finding; the detail
\* carries the cap.
C7_RuleCExact ==
    IsCheck =>
        \A w \in CallWorker :
            /\ Cardinality(OfType("MAX_HOURS_EXCEEDED")) <= 1
            /\ (OfType("MAX_HOURS_EXCEEDED") # {}
                <=> SumMinutes(WeekOthers) + (NewEnd - NewStart) > 60 * w.maxHoursPerWeek)
            /\ \A i \in OfType("MAX_HOURS_EXCEEDED") :
                  /\ Conflicts[i].severity = "warning"
                  /\ Conflicts[i].details.maxHoursPerWeek = w.maxHoursPerWeek

\* The hours of a sequence of entries, summed in its order
HoursInOrder(ord) == SumHours(FZero, ord)

\* C8: re-evaluating a persisted entry X with its own window and
\* excludeEntryId = X.id, the projected total is the sum of the durations of
\* all the worker's entries of that week, X counted once: the sum of the
\* other entries in the order fetched, then X.
C8_ExcludedCountedOnce ==
    (IsCheck /\ CallWorker # {}) =>
        \A x \in Reevaluated :
            \E ord \in Orders(SameWeek(x.workerId, call.date)) :
                /\ ord[Len(ord)] = x
                /\ call.result.projectedHours = HoursInOrder(ord)

\* X is re-evaluated, has a duration, and shares the week with another entry
C8_Witness ==
    /\ IsCheck
    /\ CallWorker # {}
    /\ \E x \in Reevaluated :
          /\ Minutes(x) > 0
          /\ Cardinality(SameWeek(x.workerId, call.date)) = 2
          /\ FGreater(call.result.projectedHours, calculateHours(x.startTime, x.endTime))

NotMaxHours(conflicts) ==
    SelectSeq(conflicts, LAMBDA c : c.type # "MAX_HOURS_EXCEEDED")

\* C9: if no worker record is found, the call returns a result without a
\* MAX_HOURS_EXCEEDED finding, and its Rule A and Rule B findings are those
\* the same call gives when the worker record exists.
C9_MissingWorker ==
    (IsCheck /\ CallWorker = {}) =>
        /\ OfType("MAX_HOURS_EXCEEDED") = {}
        /\ \A cap \in Caps :
              Conflicts =
                  NotMaxHours(checkScheduleConflicts(
                      availability,
                      workers \cup {[id |-> call.workerId, maxHoursPerWeek |-> cap]},
                      call.workerId, call.date, call.startTime, call.endTime,
                      call.existingEntries, call.weekEntries).conflicts)

\* a call for the id without a Worker row: Rule B's warning and nothing else
C9_Witness ==
    /\ IsCheck
    /\ call.workerId = "w2"
    /\ workers # {}
    /\ Len(Conflicts) = 1
    /\ call.result.hasWarning
    /\ ~call.result.hasConflict

IsWeek == call.op = "week"

\* startOfWeek and endOfWeek of the Monday-Sunday week of calendar day n
MondayStart(n) == [day |-> MondayOf(n), ms |-> 0]
SundayEnd(n) == [day |-> MondayOf(n) + 6, ms |-> MsPerDay - 1]

\* C10: getWeekBounds returns 00:00:00.000 of the Monday on or before the
\* date and 23:59:59.999 of the Sunday six days later; the date lies inside
\* the window, and two dates get the same window exactly when they fall in
\* the same Monday-Sunday week.
C10_WeekBounds ==
    IsWeek =>
        /\ call.boundsA = [startOfWeek |-> MondayStart(call.a.day),
                           endOfWeek |-> SundayEnd(call.a.day)]
        /\ call.boundsB = [startOfWeek |-> MondayStart(call.b.day),
                           endOfWeek |-> SundayEnd(call.b.day)]
        /\ DateLeq(call.boundsA.startOfWeek, call.a)
        /\ DateLeq(call.a, call.boundsA.endOfWeek)
        /\ (call.boundsA = call.boundsB <=> MondayOf(call.a.day) = MondayOf(call.b.day))

\* Sunday 2020-01-05 and Tuesday 2019-12-31 share the week that starts on
\* Monday 2019-12-30
C10_Witness ==
    /\ IsWeek
    /\ CivilFromDays(call.a.day) = [year |-> 2020, month |-> 1, day |-> 5]
    /\ CivilFromDays(call.b.day) = [year |-> 2019, month |-> 12, day |-> 31]
    /\ CivilFromDays(call.boundsA.startOfWeek.day) = [year |-> 2019, month |-> 12, day |-> 30]
    /\ call.boundsA = call.boundsB

\* C11: in every result, hasConflict is true exactly when the conflicts list
\* holds a detail of severity error, hasWarning exactly when it holds one of
\* severity warning, and both are false exactly when the list is empty.
C11_Aggregate ==
    IsCheck =>
        /\ call.result.hasConflict = (\E i \in DOMAIN Conflicts : Conflicts[i].severity = "error")
        /\ call.result.hasWarning = (\E i \in DOMAIN Conflicts : Conflicts[i].severity = "warning")
        /\ ((~call.result.hasConflict /\ ~call.result.hasWarning) <=> Conflicts = <<>>)

\* a result whose list starts with an error and also holds a warning
C11_Witness ==
    /\ IsCheck
    /\ Len(Conflicts) >= 2
    /\ Conflicts[1].severity = "error"
    /\ \E i \in DOMAIN Conflicts : Conflicts[i].severity = "warning"
    /\ call.result.hasConflict
    /\ call.result.hasWarning

\* The position of a finding's rule in the evaluation order
RuleRank(type) ==
    CASE type = "TIME_OVERLAP" -> 1
      [] type = "UNAVAILABLE" -> 2
      [] type = "MAX_HOURS_EXCEEDED" -> 3

\* The candidate overlaps entry e, by the three clauses of the evaluator
Overlaps(e) == hasOverlap(NewStart, NewEnd, timeToMinutes(e.startTime), timeToMinutes(e.endTime))

\* Rule B has a finding to make for the call: no record for the weekday, or a
\* window that leaves the declared one
RuleBFinds ==
    \/ CallAvailability = {}
    \/ \E a \in CallAvailability :
          NewStart < timeToMinutes(a.startTime) \/ NewEnd > timeToMinutes(a.endTime)

\* Rule C has a finding to make: the worker exists and the hours of the
\* fetched week entries plus the candidate's exceed the cap
RuleCFinds ==
    \E w \in CallWorker :
        Exceeds(FAdd(HoursInOrder(call.weekEntries),
                     calculateHours(call.startTime, call.endTime)),
                w.maxHoursPerWeek)

\* C12: the rules never short-circuit: the list holds one TIME_OVERLAP detail
\* per overlapping fetched entry, in the order fetched, then Rule B's finding
\* whenever Rule B has one, then Rule C's whenever Rule C has one, whatever
\* Rule A found.
C12_NoShortCircuit ==
    IsCheck =>
        /\ \A i, j \in DOMAIN Conflicts :
              i < j => RuleRank(Conflicts[i].type) <= RuleRank(Conflicts[j].type)
        /\ [i \in 1..Cardinality(OfType("TIME_OVERLAP")) |-> Conflicts[i].details.existingEntryId]
              = [i \in 1..Len(SelectSeq(call.existingEntries, Overlaps))
                   |-> SelectSeq(call.existingEntries, Overlaps)[i].id]
        /\ Cardinality(OfType("UNAVAILABLE")) = (IF RuleBFinds THEN 1 ELSE 0)
        /\ Cardinality(OfType("MAX_HOURS_EXCEEDED")) = (IF RuleCFinds THEN 1 ELSE 0)

\* Rule A found an overlap, and the findings of Rule B and Rule C follow it
C12_Witness ==
    /\ IsCheck
    /\ Len(Conflicts) = 3
    /\ Conflicts[1].type = "TIME_OVERLAP"
    /\ Conflicts[2].type = "UNAVAILABLE"
    /\ Conflicts[3].type = "MAX_HOURS_EXCEEDED"

IsBulk == call.op = "bulkcheck"

\* The positions of the batch whose evaluation has a finding
Flagged ==
    {i \in DOMAIN call.entries :
        call.evaluations[i].hasConflict \/ call.evaluations[i].hasWarning}

\* C13: checkBulkScheduleConflicts returns exactly one item for each position
\* i whose single-candidate evaluation (without excludeEntryId) has hasConflict
\* or hasWarning true, and none for any other; each item carries the
\* zero-based i and that evaluation's result; the indices strictly increase.
C13_BulkFilter ==
    IsBulk =>
        /\ Len(call.evaluations) = Len(call.entries)
        /\ \A i \in DOMAIN call.entries :
              call.evaluations[i] \in
                  Evaluations(entries, availability, workers, call.entries[i].workerId,
                              call.entries[i].date, call.entries[i].startTime,
                              call.entries[i].endTime, NoId)
        /\ Len(call.results) = Cardinality(Flagged)
        /\ \A k \in DOMAIN call.results :
              /\ call.results[k].index + 1 \in Flagged
              /\ call.results[k].result = call.evaluations[call.results[k].index + 1]
        /\ \A k, l \in DOMAIN call.results :
              k < l => call.results[k].index < call.results[l].index

\* four candidates, clean, with an error, clean, with a warning only: the
\* items carry the indices 1 and 3
C13_Witness ==
    /\ IsBulk
    /\ Len(call.entries) = 4
    /\ Flagged = {2, 4}
    /\ call.evaluations[2].hasConflict
    /\ ~call.evaluations[4].hasConflict
    /\ Len(call.results) = 2
    /\ call.results[1].index = 1
    /\ call.results[2].index = 3

\* Every evaluation of the candidate alone against the persisted data is clean
CleanAlone(c) ==
    \A r \in Evaluations(entries, availability, workers, c.workerId, c.date,
                         c.startTime, c.endTime, NoId) :
        ~r.hasConflict /\ ~r.hasWarning

\* Two candidates of one worker and day whose windows overlap each other
OverlapEachOther(a, b) ==
    /\ a.workerId = b.workerId
    /\ a.date = b.date
    /\ timeToMinutes(a.startTime) < timeToMinutes(b.endTime)
    /\ timeToMinutes(b.startTime) < timeToMinutes(a.endTime)

ResultIndices == {call.results[k].index : k \in DOMAIN call.results}

\* C14: the bulk evaluator does not check candidates against each other: two
\* candidates of a batch for the same worker and day whose windows overlap
\* each other, each clean against the persisted data, are both omitted.
C14_NoCrossCheck ==
    IsBulk =>
        \A i, j \in DOMAIN call.entries :
            (/\ i # j
             /\ OverlapEachOther(call.entries[i], call.entries[j])
             /\ CleanAlone(call.entries[i])
             /\ CleanAlone(call.entries[j]))
            => (i - 1 \notin ResultIndices /\ j - 1 \notin ResultIndices)

\* 9:20-11:40 and 9:00-11:40 on one Monday, both inside the declared window,
\* and the output is empty
C14_Witness ==
    /\ IsBulk
    /\ call.entries = <<Candidate("w1", Mon01Jan, T0920, T1140),
                        Candidate("w1", Mon01Jan, T0900, T1140)>>
    /\ CleanAlone(call.entries[1])
    /\ CleanAlone(call.entries[2])
    /\ call.results = <<>>

\* The evaluator, given the candidate of a create request and the persisted
\* data, reports an error of Rule A or Rule B
EvaluatorRejects(data) ==
    \E r \in Evaluations(entries, availability, workers, data.workerId, data.date,
                         data.startTime, data.endTime, NoId) :
        /\ r.hasConflict
        /\ \E i \in DOMAIN r.conflicts :
              /\ r.conflicts[i].severity = "error"
              /\ r.conflicts[i].type \in {"TIME_OVERLAP", "UNAVAILABLE"}

\* C15: the create handler rejects a validated request with a 4xx response
\* only when evaluating the same candidate against the same persisted data
\* gives hasConflict = true from a Rule A or Rule B error.
C15_RejectsOnlyOnEvaluatorError ==
    [][\A data \in EntryBodies :
          (ValidEntryBody(data) /\ CreateEntry(data) /\ call'.status \in 400..499)
          => EvaluatorRejects(data)]_vars

\* The window of row e lies inside every window the worker has declared for
\* the weekday of e's date
InsideDeclared(e, av) ==
    \A a \in av :
        (a.workerId = e.workerId /\ a.dayOfWeek = getDay(e.date))
        => /\ timeToMinutes(a.startTime) <= timeToMinutes(e.startTime)
           /\ timeToMinutes(e.endTime) <= timeToMinutes(a.endTime)

\* C16: no schedule-entry write (create, bulk-create or update) persists an
\* entry whose window lies outside the availability window the worker has
\* declared for that weekday at the time of the write.
C16_WritesInsideAvailability ==
    [][\A e \in entries' \ entries : InsideDeclared(e, availability)]_vars

\* The entries that reference job j
Referencing(rows, j) == {e \in rows : e.serviceJobId = j.id}

\* A step of DELETE /:id that deleted a row referencing a job: the job is set
\* to UNSCHEDULED with no scheduledDate if no row references it afterwards,
\* and no job changes otherwise
DeleteRevertsJob ==
    (call'.op = "delete" /\ call'.status = 204) =>
        \A j \in jobs :
            call'.entry.serviceJobId = j.id =>
                IF Referencing(entries', j) = {}
                THEN jobs' = (jobs \ {j}) \cup
                             {[id |-> j.id, status |-> "UNSCHEDULED", scheduledDate |-> NoRow]}
                ELSE jobs' = jobs

\* The rows a step has created
Created == {e \in entries' : \A x \in entries : x.id # e.id}

\* The job every created row references is SCHEDULED after the step
CreatedJobsScheduled ==
    \A e \in Created : \A j \in jobs' : e.serviceJobId = j.id => j.status = "SCHEDULED"

IsServing == call.op = "creating"

\* C18: two concurrent create requests for the same worker and day with
\* overlapping windows can both pass the overlap check and both be
\* persisted: a request that has passed the check against the rows it read
\* creates its row whatever has been written since (nothing but the worker
\* and job references can make the create fail).
C18_CheckThenCreate ==
    [][\A p \in Requests :
          (/\ IsServing
           /\ call.reqs[p].pc = "create"
           /\ call'.reqs[p].pc # "create"
           /\ ForeignKeysHold(workers, jobs, call.reqs[p].data))
          => /\ ~InlineConflict(call.reqs[p].existingEntries,
                                call.reqs[p].data.startTime, call.reqs[p].data.endTime)
             /\ call'.reqs[p].status = 201
             /\ \E e \in entries' \ entries :
                   /\ e.id = call'.reqs[p].id
                   /\ e.workerId = call.reqs[p].data.workerId
                   /\ e.startTime = call.reqs[p].data.startTime
                   /\ e.endTime = call.reqs[p].data.endTime]_vars

\* both requests read no entry, both were answered 201, and their two rows,
\* of one worker and day, overlap
C18_Witness ==
    /\ IsServing
    /\ \A p \in {1, 2} :
          /\ call.reqs[p].pc = "answered"
          /\ call.reqs[p].status = 201
          /\ call.reqs[p].existingEntries = {}
    /\ \E a, b \in entries :
          /\ a.id = call.reqs[1].id
          /\ b.id = call.reqs[2].id
          /\ a.id # b.id
          /\ a.workerId = b.workerId
          /\ a.date = b.date
          /\ timeToMinutes(a.startTime) < timeToMinutes(b.endTime)
          /\ timeToMinutes(b.startTime) < timeToMinutes(a.endTime)
          /\ InlineConflict({a}, b.startTime, b.endTime)

\* The findings a call with the arguments of the finished call returns on
\* the store state snap
FindingsOn(snap) ==
    {r.conflicts : r \in Evaluations(snap.entries, snap.availability, snap.workers,
                                     call.workerId, call.date, call.startTime,
                                     call.endTime, call.excludeEntryId)}

\* C19: each call evaluates against one consistent snapshot: when entry
\* writes of other requests interleave with its reads, the findings returned
\* are the findings computed on a single store state that existed during the
\* call.
C19_ConsistentSnapshot ==
    call.op = "checked" => \E snap \in call.seen : Conflicts \in FindingsOn(snap)

\* C20: checkScheduleConflicts and checkBulkScheduleConflicts leave the store
\* unchanged: the schedule entries, availability records and worker records
\* are the same before and after any evaluation, whatever its result.
C20_EvaluatorsReadOnly ==
    [][(call'.op \in {"check", "bulkcheck"})
       => /\ entries' = entries
          /\ availability' = availability
          /\ workers' = workers]_vars

\* a bulk evaluation with a clean candidate and a reported one has returned
\* on a store that holds a worker, an availability record and an entry
C20_Witness ==
    /\ IsBulk
    /\ Flagged # {}
    /\ Flagged # DOMAIN call.entries
    /\ entries # {}
    /\ availability # {}
    /\ workers # {}

\* The number of the read a call makes at each of its awaits
ReadNumber(pc) ==
    CASE pc = "day" -> 1
      [] pc = "availability" -> 2
      [] pc = "worker" -> 3
      [] pc = "week" -> 4

\* C21: a failure of a store read inside checkScheduleConflicts propagates as
\* a failure, never as a ConflictResult, and is not retried; a failure while
\* checkBulkScheduleConflicts evaluates candidate i fails the whole call: no
\* list is returned and no candidate after i is evaluated.
C21_FaultsPropagate ==
    /\ call.op \in {"checking", "checked", "bulking", "bulkchecked"} => call.faults = 0
    /\ call.op = "thrown" =>
          /\ call.faults = 1
          /\ call.reads = ReadNumber(call.failed)
          /\ "result" \notin DOMAIN call
    /\ call.op = "bulkthrown" =>
          /\ call.faults = 1
          /\ call.evaluated = call.index
          /\ "results" \notin DOMAIN call

\* the evaluation of the second of three candidates failed after the first
\* had been pushed
C21_Witness ==
    /\ call.op = "bulkthrown"
    /\ Len(call.entries) = 3
    /\ call.index = 1
    /\ call.dropped = 1

\* The indices 0 .. n-1 in increasing order
InputOrder(n) == [k \in 1..n |-> k - 1]

\* C22: provided every store read returns, each call of
\* checkScheduleConflicts terminates after at most four store reads (three
\* when the worker record is missing), and checkBulkScheduleConflicts on n
\* candidates terminates after exactly n evaluations, run in input order.
C22_Terminates ==
    /\ [](call.op \in {"checking", "checked"} => call.reads <= 4)
    /\ [](call.op = "checked" => call.reads = (IF CallWorker = {} THEN 3 ELSE 4))
    /\ [](call.op = "bulkchecked" => call.order = InputOrder(Len(call.entries)))
    /\ (call.op = "checking" ~> call.op = "checked")
    /\ (call.op = "bulking" ~> call.op = "bulkchecked")

\* a call for the id without a Worker row has returned after three reads
C22_Witness ==
    /\ call.op = "checked"
    /\ CallWorker = {}
    /\ workers # {}
    /\ call.reads = 3

\* C23: for time strings the request schema accepts, the inline overlap test
\* of POST / on the raw strings gives the verdict of Rule A's test on
\* minutes since midnight.
C23_InlineEqualsRuleA ==
    (/\ call.op = "overlap"
     /\ \A s \in {call.newStart, call.newEnd, call.existingStart, call.existingEnd} :
           MatchesTimeRegex(s))
    => call.inline = call.ruleA

\* The TIME_OVERLAP details that carry the id, start and end of entry e
DetailsOf(e) ==
    {i \in OfType("TIME_OVERLAP") :
        Conflicts[i].details = [existingEntryId |-> e.id,
                                existingStart |-> e.startTime,
                                existingEnd |-> e.endTime]}

\* C24: Rule A produces exactly one TIME_OVERLAP detail for each overlapping
\* same-day entry of the worker (the excluded one apart) and none for a
\* non-overlapping one, each detail carrying the entry's id, start and end;
\* the number of details is the number of such entries, and no entry of
\* another worker or another day is reported.
C24_OneDetailPerOverlap ==
    IsCheck =>
        /\ \A e \in SameDayOthers :
              Cardinality(DetailsOf(e)) = (IF Overlaps(e) THEN 1 ELSE 0)
        /\ Cardinality(OfType("TIME_OVERLAP"))
              = Cardinality({e \in SameDayOthers : Overlaps(e)})
        /\ \A i \in OfType("TIME_OVERLAP") :
              \E e \in SameDayOthers : Conflicts[i].details.existingEntryId = e.id

\* a candidate that overlaps two same-day entries, each reported once, while
\* the store is at its bound
C24_Witness ==
    /\ IsCheck
    /\ Cardinality(OfType("TIME_OVERLAP")) = 2
    /\ Cardinality(SameDayOthers) = 2
    /\ \A e \in SameDayOthers : Cardinality(DetailsOf(e)) = 1

\* C25: for a given store state and given arguments checkScheduleConflicts
\* returns one conflicts list, in one order: every evaluation the store state
\* allows returns the list the call returned.
C25_Deterministic ==
    IsCheck =>
        \A r \in Evaluations(entries, availability, workers, call.workerId, call.date,
                             call.startTime, call.endTime, call.excludeEntryId) :
            r.conflicts = Conflicts

\* The doubles of the signed durations of the entries of ord, added in its
\* order from 0
RECURSIVE SignedHours(_, _)
SignedHours(total, ord) ==
    IF ord = <<>> THEN total
    ELSE SignedHours(FAdd(total, FDiv60(Minutes(Head(ord)))), Tail(ord))

\* The signed minutes of the week's entries and of the candidate
SignedMinutes == SumMinutes(WeekOthers) + (NewEnd - NewStart)

\* C26: Rule C uses signed durations: a window whose end precedes its start
\* counts as a negative number of hours; the projected total is the signed
\* sum (end - start) / 60 over the fetched week entries plus the candidate,
\* and MAX_HOURS_EXCEEDED is decided on that sum.
C26_SignedDurations ==
    (IsCheck /\ CallWorker # {}) =>
        \A w \in CallWorker :
            /\ call.result.projectedHours
                  = FAdd(SignedHours(FZero, call.weekEntries), FDiv60(NewEnd - NewStart))
            /\ OfType("MAX_HOURS_EXCEEDED") # {}
                  <=> FGreater(call.result.projectedHours, FInt(w.maxHoursPerWeek))
            /\ SignedMinutes # 0 => (call.result.projectedHours.neg <=> SignedMinutes < 0)
            /\ SignedMinutes # 60 * w.maxHoursPerWeek
                  => (OfType("MAX_HOURS_EXCEEDED") # {}
                      <=> SignedMinutes > 60 * w.maxHoursPerWeek)

\* an inverted entry of the week cancels the candidate's hours: the lengths
\* of the two windows together exceed the cap, and nothing is reported
C26_Witness ==
    /\ IsCheck
    /\ \E w \in CallWorker, e \in WeekOthers :
          /\ Minutes(e) < 0
          /\ NewEnd - NewStart > 0
          /\ (NewEnd - NewStart) - Minutes(e) > 60 * w.maxHoursPerWeek
    /\ OfType("MAX_HOURS_EXCEEDED") = {}

\* The records a request body asks for, and the records of one worker
BodyRecords(workerId, body) ==
    {[workerId |-> workerId, dayOfWeek |-> body[i].dayOfWeek,
      startTime |-> body[i].startTime, endTime |-> body[i].endTime] : i \in 1..Len(body)}

RecordsOf(av, workerId) == {a \in av : a.workerId = workerId}

ListsDayTwice(body) ==
    \E i, j \in 1..Len(body) : i # j /\ body[i].dayOfWeek = body[j].dayOfWeek

\* C27: each worker has at most one availability record per day of the week;
\* a successful PUT /:id/availability leaves the worker with exactly the
\* records of its body and nothing else changes the records, so they are
\* those of the last successful request; a body that lists a day twice fails
\* as a whole and leaves the records as they were.
C27_AvailabilityReplaced ==
    /\ [](\A a, b \in availability :
             (a.workerId = b.workerId /\ a.dayOfWeek = b.dayOfWeek) => a = b)
    /\ [][/\ \A workerId \in WorkerIds, body \in AvailabilityBodies :
               SetAvailability(workerId, body) =>
                   /\ ListsDayTwice(body) => call'.status # 200
                   /\ IF call'.status = 200
                      THEN /\ RecordsOf(availability', workerId) = BodyRecords(workerId, body)
                           /\ \A other \in WorkerIds \ {workerId} :
                                 RecordsOf(availability', other) = RecordsOf(availability, other)
                      ELSE availability' = availability
          /\ availability' # availability
               => (call'.op = "availability" /\ call'.status = 200)]_vars

\* a request has failed with 500 and the worker's record is still there
C27_Witness ==
    /\ call.op = "availability"
    /\ call.status = 500
    /\ availability # {}

\* C28: from a store with no entries and every job UNSCHEDULED, after any
\* sequence of create, bulk-create, update and delete requests a service job
\* is SCHEDULED if and only if at least one persisted entry references it.
C28_ScheduledIffReferenced ==
    \A j \in jobs : j.status = "SCHEDULED" <=> Referencing(entries, j) # {}

\* The rows of a fetched list
Rows(ord) == {ord[k] : k \in DOMAIN ord}

\* C29: Rule A's same-day window lies inside Rule C's week window: when the
\* worker is found, every row the same-day query returned is among the rows
\* of the week query, so every entry that yields a TIME_OVERLAP detail is
\* among the entries summed into currentWeekHours.
C29_DayInsideWeek ==
    (IsCheck /\ CallWorker # {}) =>
        /\ Rows(call.existingEntries) \subseteq Rows(call.weekEntries)
        /\ \A i \in OfType("TIME_OVERLAP") :
              \E e \in Rows(call.weekEntries) :
                  /\ e.id = Conflicts[i].details.existingEntryId
                  /\ e \in WeekOthers

\* a candidate on a Sunday, the last day of its week, overlaps an entry of
\* that Sunday while the week holds an entry of another day as well
C29_Witness ==
    /\ IsCheck
    /\ CallWorker # {}
    /\ CallWeekday = 0
    /\ OfType("TIME_OVERLAP") # {}
    /\ Len(call.weekEntries) > Len(call.existingEntries)

\* The TIME_OVERLAP details of a conflicts list
OverlapDetails(conflicts) ==
    {conflicts[i].details : i \in {k \in DOMAIN conflicts : conflicts[k].type = "TIME_OVERLAP"}}

\* The results of the call's evaluation on the entries S, the availability
\* and the workers as they are
EvaluationsOn(S) ==
    Evaluations(S, availability, workers, call.workerId, call.date,
                call.startTime, call.endTime, call.excludeEntryId)

\* C30: errors are monotone in the existing entries: with the availability
\* unchanged, a candidate that evaluates to hasConflict = true against a set
\* S of entries evaluates to hasConflict = true against every superset of S,
\* and every TIME_OVERLAP detail reported against S is reported against the
\* superset.
C30_ErrorsMonotone ==
    IsCheck =>
        \A S \in SUBSET entries :
            \A r \in EvaluationsOn(S) :
                /\ r.hasConflict => call.result.hasConflict
                /\ OverlapDetails(r.conflicts) \subseteq OverlapDetails(Conflicts)

\* the candidate has an error against one of the two entries alone, and the
\* evaluation against both reports that overlap and one more
C30_Witness ==
    /\ IsCheck
    /\ call.result.hasConflict
    /\ Cardinality(OverlapDetails(Conflicts)) = 2
    /\ \E S \in SUBSET entries :
          /\ S # entries
          /\ \E r \in EvaluationsOn(S) :
                r.hasConflict /\ Cardinality(OverlapDetails(r.conflicts)) = 1

=============================================================================
